---- MODULE Spec2Model ----
(***************************************************************************)
(* PayBySquare generator: the validator (src/src/validation.rs), the field *)
(* serializer and the encode pipeline (src/src/generator.rs) and the entry *)
(* points of the library (src/src/lib.rs), the QR renderer and the frame   *)
(* compositor (src/src/qr.rs).                                             *)
(*                                                                         *)
(* Text is a sequence of Unicode code points.  Rust's str::len() is the    *)
(* number of UTF-8 bytes, chars() iterates the code points.  Option<T> is  *)
(* a sequence of zero or one elements: None == <<>>, Some(x) == <<x>>.     *)
(* An f64 amount is a finite decimal with three fractional digits, held as *)
(* an integer number of thousandths.                                       *)
(***************************************************************************)
EXTENDS Integers, Sequences, FiniteSets, TLC

VARIABLES
    payment,        \* the PaymentRequest handed to the entry point
    entry,          \* which entry point the caller invoked
    pc,             \* the stage the call has reached
    result,         \* the Result the call returned (kind "Pending" until then)
    data,           \* generate_pay_by_square_code: let data
    data_with_crc,  \* generate_pay_by_square_code: let mut data_with_crc
    compressed,     \* generate_pay_by_square_code: let compressed
    final_data,     \* generate_pay_by_square_code: let mut final_data
    encoded,        \* generate_pay_by_square_code: let encoded
    iban_arg,       \* validate_iban called on its own: the argument
    iban_ret,       \* validate_iban called on its own: the Result
    b32_arg,        \* base32hex_encode called on its own: the argument
    b32_ret,        \* base32hex_encode called on its own: the String
    stages,         \* the stages of the entry point executed so far, in order
    opts,           \* generate_pay_by_square_qr: opts (QrOptions)
    frame_data,     \* generate_pay_by_square_qr, add_frame: frame_data
    qr_data,        \* generate_pay_by_square_qr, add_frame: qr_data
    png_data,       \* the bytes the image functions return
    loaded,         \* the buffers image::load_from_memory was called on, in order
    frame_width,    \* add_frame: let frame_width
    frame_height,   \* add_frame: let frame_height
    target_qr_size, \* add_frame: let target_qr_size
    x_offset,       \* add_frame: let x_offset
    y_offset,       \* add_frame: let y_offset
    size,           \* generate_default_frame: size
    y,              \* generate_default_frame: the row the outer loop has reached
    img             \* generate_default_frame: let mut img, a sequence of rows

vars == <<payment, entry, pc, result, data, data_with_crc, compressed,
          final_data, encoded, iban_arg, iban_ret, b32_arg, b32_ret, stages,
          opts, frame_data, qr_data, png_data, loaded, frame_width,
          frame_height, target_qr_size, x_offset, y_offset, size, y, img>>

----------------------------------------------------------------------------
(* Option<T> and text helpers *)

None == <<>>

Some(x) == <<x>>

is_none(o) == o = <<>>

is_some(o) == o # <<>>

unwrap_or_default(o) == IF o = <<>> THEN <<>> ELSE o[1]

Repeat(c, n) == [i \in 1..n |-> c]

Tab == 9

Space == 32

Comma == 44

Pipe == 124

Digits(ds) == [i \in 1..Len(ds) |-> 48 + ds[i]]

\* the concatenation of ss[lo..hi], by halves
RECURSIVE FlattenRange(_, _, _)
FlattenRange(ss, lo, hi) ==
    IF lo > hi THEN <<>>
    ELSE IF lo = hi THEN ss[lo]
    ELSE LET mid == (lo + hi) \div 2 IN
         FlattenRange(ss, lo, mid) \o FlattenRange(ss, mid + 1, hi)

Flatten(ss) == FlattenRange(ss, 1, Len(ss))

\* slice::join: the parts with sep between neighbours
RECURSIVE join(_, _)
join(parts, sep) ==
    IF parts = <<>> THEN <<>>
    ELSE IF Len(parts) = 1 THEN parts[1]
    ELSE parts[1] \o sep \o join(Tail(parts), sep)

\* char::len_utf8
len_utf8(c) == IF c < 128 THEN 1 ELSE IF c < 2048 THEN 2 ELSE IF c < 65536 THEN 3 ELSE 4

\* the UTF-8 encoding of one code point
utf8_char(c) ==
    IF c < 128 THEN <<c>>
    ELSE IF c < 2048 THEN <<192 + (c \div 64), 128 + (c % 64)>>
    ELSE IF c < 65536 THEN
        <<224 + (c \div 4096), 128 + ((c \div 64) % 64), 128 + (c % 64)>>
    ELSE <<240 + (c \div 262144), 128 + ((c \div 4096) % 64),
           128 + ((c \div 64) % 64), 128 + (c % 64)>>

\* str::as_bytes
as_bytes(s) == Flatten([i \in 1..Len(s) |-> utf8_char(s[i])])

\* the UTF-8 length of s[lo..hi], by halves
RECURSIVE SumLen(_, _, _)
SumLen(s, lo, hi) ==
    IF lo > hi THEN 0
    ELSE IF lo = hi THEN len_utf8(s[lo])
    ELSE LET mid == (lo + hi) \div 2 IN SumLen(s, lo, mid) + SumLen(s, mid + 1, hi)

\* str::len: the length in bytes
str_len(s) == SumLen(s, 1, Len(s))

\* str::chars().count()
chars_count(s) == Len(s)

is_ascii_digit(c) == c \in 48..57

is_ascii_alphabetic(c) == c \in 65..90 \/ c \in 97..122

is_ascii_alphanumeric(c) == is_ascii_alphabetic(c) \/ is_ascii_digit(c)

\* str::replace(' ', "")
replace_space(s) == SelectSeq(s, LAMBDA c : c # Space)

----------------------------------------------------------------------------
(* errors.rs: PayBySquareError, and Result<()> *)

Res(kind, msg, field, max, actual) ==
    [kind |-> kind, msg |-> msg, field |-> field, max |-> max, actual |-> actual]

Ok == Res("Ok", "", "", 0, 0)

Pending == Res("Pending", "", "", 0, 0)

InvalidAmount == Res("InvalidAmount", "", "", 0, 0)

MissingBankAccount == Res("MissingBankAccount", "", "", 0, 0)

InvalidIban(msg) == Res("InvalidIban", msg, "", 0, 0)

InvalidSwift(msg) == Res("InvalidSwift", msg, "", 0, 0)

FieldTooLong(field, max, actual) == Res("FieldTooLong", "", field, max, actual)

CompressionError == Res("CompressionError", "", "", 0, 0)

----------------------------------------------------------------------------
(* validation.rs *)

validate_length(field, value, max) ==
    IF str_len(value) > max THEN FieldTooLong(field, max, str_len(value)) ELSE Ok

\* Iterator::take and Iterator::skip on chars()
take(s, n) == SubSeq(s, 1, IF n < Len(s) THEN n ELSE Len(s))

skip(s, n) == SubSeq(s, n + 1, Len(s))

\* chars().all(|c| c.is_ascii_alphabetic()), and so on
all_ascii_alphabetic(s) == \A i \in 1..Len(s) : is_ascii_alphabetic(s[i])

all_ascii_digit(s) == \A i \in 1..Len(s) : is_ascii_digit(s[i])

all_ascii_alphanumeric(s) == \A i \in 1..Len(s) : is_ascii_alphanumeric(s[i])

validate_iban_no_upper(iban) ==
    LET iban_clean == replace_space(iban) IN
    IF str_len(iban_clean) < 15
    THEN InvalidIban("IBAN must be between 15 and 34 characters")
    ELSE IF ~all_ascii_alphabetic(take(iban_clean, 2))
    THEN InvalidIban("IBAN must start with a 2-letter country code")
    ELSE IF ~all_ascii_digit(take(skip(iban_clean, 2), 2))
    THEN InvalidIban("IBAN check digits must be numeric")
    ELSE IF ~all_ascii_alphanumeric(iban_clean)
    THEN InvalidIban("IBAN contains invalid characters")
    ELSE Ok

validate_iban(iban) ==
    LET iban_clean == replace_space(iban) IN
    IF str_len(iban_clean) < 15 \/ str_len(iban_clean) > 34
    THEN InvalidIban("IBAN must be between 15 and 34 characters")
    ELSE IF ~all_ascii_alphabetic(take(iban_clean, 2))
    THEN InvalidIban("IBAN must start with a 2-letter country code")
    ELSE IF ~all_ascii_digit(take(skip(iban_clean, 2), 2))
    THEN InvalidIban("IBAN check digits must be numeric")
    ELSE IF ~all_ascii_alphanumeric(iban_clean)
    THEN InvalidIban("IBAN contains invalid characters")
    ELSE Ok

validate_swift(swift) ==
    LET swift_clean == replace_space(swift) IN
    IF str_len(swift_clean) # 8 /\ str_len(swift_clean) # 11
    THEN InvalidSwift("SWIFT/BIC must be 8 or 11 characters")
    ELSE IF ~all_ascii_alphanumeric(swift_clean)
    THEN InvalidSwift("SWIFT/BIC contains invalid characters")
    ELSE Ok

\* the body of `for account in accounts` for one account
validate_account(account) ==
    LET r == validate_iban(account.iban) IN
    IF r # Ok THEN r
    ELSE IF is_some(account.swift) THEN validate_swift(account.swift[1])
    ELSE Ok

\* the loop `for account in accounts`: the first account's error returns
RECURSIVE validate_accounts(_)
validate_accounts(accounts) ==
    IF accounts = <<>> THEN Ok
    ELSE LET r == validate_account(Head(accounts)) IN
         IF r # Ok THEN r ELSE validate_accounts(Tail(accounts))

\* `if let Some(ref v) = field { validate_length(name, v, max)?; }`
check_len(field, opt, max) ==
    IF is_some(opt) THEN validate_length(field, opt[1], max) ELSE Ok

\* the first Err of a sequence of Results, as the `?` operator returns it
RECURSIVE first_err(_)
first_err(rs) ==
    IF rs = <<>> THEN Ok
    ELSE IF Head(rs) # Ok THEN Head(rs) ELSE first_err(Tail(rs))

\* validation.rs lines 36-71
validate_lengths(p) ==
    first_err(<<
        check_len("invoice_id", p.invoice_id, 10),
        check_len("beneficiary_name", p.beneficiary_name, 70),
        check_len("beneficiary_address_1", p.beneficiary_address_1, 70),
        check_len("beneficiary_address_2", p.beneficiary_address_2, 70),
        check_len("variable_symbol", p.variable_symbol, 10),
        check_len("constant_symbol", p.constant_symbol, 4),
        check_len("specific_symbol", p.specific_symbol, 10),
        check_len("originators_reference_information",
                  p.originators_reference_information, 35),
        check_len("note", p.note, 140) >>)

validate_payment_request_no_missing(p) ==
    IF p.amount <= 0 THEN InvalidAmount
    ELSE first_err(<<
        IF is_some(p.iban) THEN validate_iban(p.iban[1]) ELSE Ok,
        IF is_some(p.bank_accounts) THEN validate_accounts(p.bank_accounts[1]) ELSE Ok,
        IF is_some(p.swift) THEN validate_swift(p.swift[1]) ELSE Ok,
        validate_lengths(p) >>)

validate_payment_request_swift_first(p) ==
    IF p.amount <= 0 THEN InvalidAmount
    ELSE IF is_none(p.iban) /\ is_none(p.bank_accounts) THEN MissingBankAccount
    ELSE first_err(<<
        IF is_some(p.iban) THEN validate_iban(p.iban[1]) ELSE Ok,
        IF is_some(p.swift) THEN validate_swift(p.swift[1]) ELSE Ok,
        IF is_some(p.bank_accounts) THEN validate_accounts(p.bank_accounts[1]) ELSE Ok,
        validate_lengths(p) >>)

validate_payment_request(p) ==
    IF p.amount <= 0 THEN InvalidAmount
    ELSE IF is_none(p.iban) /\ is_none(p.bank_accounts) THEN MissingBankAccount
    ELSE first_err(<<
        IF is_some(p.iban) THEN validate_iban(p.iban[1]) ELSE Ok,
        IF is_some(p.bank_accounts) THEN validate_accounts(p.bank_accounts[1]) ELSE Ok,
        IF is_some(p.swift) THEN validate_swift(p.swift[1]) ELSE Ok,
        validate_lengths(p) >>)

----------------------------------------------------------------------------
(* generator.rs: the field serializer *)

\* u8::to_string and the integer part of a formatted float
RECURSIVE to_string(_)
to_string(n) ==
    IF n < 10 THEN <<48 + n>> ELSE to_string(n \div 10) \o <<48 + (n % 10)>>

\* the decimal digits of n, zero-padded on the left to width w
RECURSIVE pad0(_, _)
pad0(n, w) == IF w = 0 THEN <<>> ELSE pad0(n \div 10, w - 1) \o <<48 + (n % 10)>>

\* format_date: date.format("%Y%m%d"), for years 0..9999
format_date(d) == pad0(d.y, 4) \o pad0(d.m, 2) \o pad0(d.d, 2)

\* format!("{:.2}", amount) of the amount of `milli` thousandths: rounded to
\* the nearest hundredth (no input of the model lies on a tie), the integer
\* part, '.', two fractional digits; '-' for a negative amount.
format_amount(milli) ==
    LET abs == IF milli < 0 THEN 0 - milli ELSE milli
        cents == (abs + 5) \div 10
    IN  (IF milli < 0 THEN <<45>> ELSE <<>>)
        \o to_string(cents \div 100) \o <<46>> \o pad0(cents % 100, 2)

\* generator.rs lines 44-48
option_code(opt) ==
    CASE opt = "PaymentOrder" -> <<49>>
      [] opt = "StandingOrder" -> <<50>>
      [] opt = "DirectDebit" -> <<51>>

\* Field 1, generator.rs lines 41-54
payment_opts(p) ==
    IF is_some(p.payment_options)
    THEN join([i \in 1..Len(p.payment_options[1]) |->
                   option_code(p.payment_options[1][i])], <<Comma>>)
    ELSE <<49>>

\* generator.rs lines 89-95 and 98-102: IBAN|SWIFT or IBAN
account_entry(iban, swift) ==
    IF is_some(swift) THEN iban \o <<Pipe>> \o swift[1] ELSE iban

\* Field 10, generator.rs lines 85-107
bank_accounts_field(p) ==
    IF is_some(p.bank_accounts)
    THEN join([i \in 1..Len(p.bank_accounts[1]) |->
                   account_entry(p.bank_accounts[1][i].iban,
                                 p.bank_accounts[1][i].swift)], <<Comma>>)
    ELSE IF is_some(p.iban) THEN account_entry(p.iban[1], p.swift)
    ELSE <<>>

\* generator.rs lines 131-138
periodicity_letter(per) ==
    CASE per = "Daily" -> <<68>>
      [] per = "Weekly" -> <<87>>
      [] per = "Monthly" -> <<77>>
      [] per = "Quarterly" -> <<81>>
      [] per = "HalfYearly" -> <<72>>
      [] per = "Yearly" -> <<89>>

\* Field 16, generator.rs lines 130-154
standing_order_field(p) ==
    IF is_some(p.standing_order)
    THEN LET so == p.standing_order[1]
             months == join([i \in 1..Len(so.month) |-> to_string(so.month[i])],
                            <<Comma>>)
         IN  to_string(so.day) \o <<Pipe>> \o months \o <<Pipe>>
             \o periodicity_letter(so.periodicity) \o <<Pipe>>
             \o format_date(so.last_date)
    ELSE <<>>

\* Field 17, generator.rs lines 157-176
direct_debit_field(p) ==
    IF is_some(p.direct_debit)
    THEN LET dd == p.direct_debit[1]
             dd_parts ==
                 << IF dd.scheme = "Sepa" THEN <<83, 69, 80, 65>>
                    ELSE <<79, 84, 72, 69, 82>>,
                    IF dd.debit_type = "OneOff" THEN <<79, 78, 69, 79, 70, 70>>
                    ELSE <<82, 67, 85, 82>> >>
                 \o (IF is_some(dd.mandate_id) THEN <<dd.mandate_id[1]>> ELSE <<>>)
                 \o (IF is_some(dd.creditor_id) THEN <<dd.creditor_id[1]>> ELSE <<>>)
         IN  join(dd_parts, <<Pipe>>)
    ELSE <<>>

\* the Vec `fields` of build_data_structure when it is joined
fields_of(p) ==
    << payment_opts(p),
       format_amount(p.amount),
       p.currency,
       IF is_some(p.date) THEN format_date(p.date[1]) ELSE <<>>,
       unwrap_or_default(p.variable_symbol),
       unwrap_or_default(p.constant_symbol),
       unwrap_or_default(p.specific_symbol),
       unwrap_or_default(p.originators_reference_information),
       unwrap_or_default(p.note),
       bank_accounts_field(p),
       unwrap_or_default(p.beneficiary_name),
       unwrap_or_default(p.beneficiary_address_1),
       unwrap_or_default(p.beneficiary_address_2),
       IF is_some(p.payment_due_date) THEN format_date(p.payment_due_date[1]) ELSE <<>>,
       unwrap_or_default(p.invoice_id),
       standing_order_field(p),
       direct_debit_field(p) >>

\* build_data_structure: fields.join("\t")
build_data_structure(p) == join(fields_of(p), <<Tab>>)

----------------------------------------------------------------------------
(* generator.rs: checksum, compression, header, text encoding *)

\* bitwise exclusive or of two naturals, bit by bit
RECURSIVE XorBits(_, _)
XorBits(a, b) ==
    IF a = 0 THEN b
    ELSE IF b = 0 THEN a
    ELSE ((a + b) % 2) + 2 * XorBits(a \div 2, b \div 2)

\* the exclusive or of two 4-bit values, tabulated
XorNibble == [a \in 0..15 |-> [b \in 0..15 |-> XorBits(a, b)]]

\* the exclusive or of two 8-bit values
Xor(a, b) == 16 * XorNibble[a \div 16][b \div 16] + XorNibble[a % 16][b % 16]

\* the exclusive or of two 16-bit values
Xor16(a, b) == 256 * Xor(a \div 256, b \div 256) + Xor(a % 256, b % 256)

\* A u32 is the pair <<high 16 bits, low 16 bits>>.
Xor32(a, b) == <<Xor16(a[1], b[1]), Xor16(a[2], b[2])>>

\* x >> 1
Shr1(x) == <<x[1] \div 2, (x[1] % 2) * 32768 + (x[2] \div 2)>>

\* x >> 8
Shr8(x) == <<x[1] \div 256, (x[1] % 256) * 256 + (x[2] \div 256)>>

RECURSIVE CrcShift(_, _)
CrcShift(c, k) ==
    IF k = 0 THEN c
    ELSE CrcShift(IF c[2] % 2 = 1 THEN Xor32(<<60856, 33568>>, Shr1(c)) ELSE Shr1(c),
                  k - 1)

\* the byte table of the reflected CRC-32 (polynomial 0xEDB88320)
CrcTable == [n \in 0..255 |-> CrcShift(<<0, n>>, 8)]

\* the CRC register after one more byte
CrcByte(crc, byte) == Xor32(CrcTable[Xor(crc[2] % 256, byte)], Shr8(crc))

\* the CRC register after bytes[lo..hi], in order (the range split in
\* halves; the test on `left` only makes the first half evaluate first)
RECURSIVE CrcUpdate(_, _, _, _)
CrcUpdate(crc, bytes, lo, hi) ==
    IF lo > hi THEN crc
    ELSE IF lo = hi THEN CrcByte(crc, bytes[lo])
    ELSE LET mid == (lo + hi) \div 2
             left == CrcUpdate(crc, bytes, lo, mid)
         IN  IF left[1] >= 0 THEN CrcUpdate(left, bytes, mid + 1, hi) ELSE left

\* crc32fast::hash: the CRC-32 of zip and PNG (initial value and final
\* exclusive or 0xFFFFFFFF)
crc32(bytes) ==
    Xor32(CrcUpdate(<<65535, 65535>>, bytes, 1, Len(bytes)), <<65535, 65535>>)

\* u32::to_le_bytes
to_le_bytes(x) == <<x[2] % 256, x[2] \div 256, x[1] % 256, x[1] \div 256>>

\* generator.rs lines 11-18: the CRC of the field string, then the string
with_crc_after(s) ==
    LET bytes == as_bytes(s) IN bytes \o to_le_bytes(crc32(bytes))

with_crc(s) ==
    LET bytes == as_bytes(s) IN to_le_bytes(crc32(bytes)) \o bytes

\* compress_lzma: XzEncoder::new(Vec::new(), 6), write_all, finish.  liblzma
\* is outside the repository: the stream is the XZ container (its six magic
\* bytes first, its two footer magic bytes last) around the payload, held
\* here as one stored LZMA2 chunk (control byte 1, size - 1 in two bytes, the
\* bytes, end marker 0); stream flags, block header, check and index are
\* left out.
compress_lzma(bytes) ==
    <<253, 55, 122, 88, 90, 0>>
    \o (IF bytes = <<>> THEN <<>>
        ELSE <<1, ((Len(bytes) - 1) \div 256) % 256, (Len(bytes) - 1) % 256>> \o bytes)
    \o <<0>> \o <<89, 90>>

\* generator.rs lines 23-29: the four header bytes, then the compressed blob
add_header(blob) == <<0, 0, 0, 0>> \o blob

\* const ALPHABET: b"0123456789ABCDEFGHIJKLMNOPQRSTUV"
ALPHABET == [i \in 1..32 |-> IF i <= 10 THEN 47 + i ELSE 54 + i]

\* ALPHABET[index], index counted from 0
alphabet_at(index) == ALPHABET[index + 1]

RECURSIVE Pow2(_)
Pow2(n) == IF n = 0 THEN 1 ELSE 2 * Pow2(n - 1)

\* The accumulator `bits` is the sequence of its bytes, most significant
\* first (four for a u32).  (bits << 8) | byte drops the top byte.
shl8_or(bits, byte) == Tail(bits) \o <<byte>>

\* the low 24 bits of the accumulator (all of it, when it is narrower)
low24(bits) ==
    LET n == Len(bits) IN
    (IF n >= 3 THEN 65536 * bits[n - 2] ELSE 0)
    + (IF n >= 2 THEN 256 * bits[n - 1] ELSE 0) + bits[n]

\* (bits >> shift) & 0x1F, for shift <= 19
shr_and_1f(bits, shift) == (low24(bits) \div Pow2(shift)) % 32

\* (bits << shift) & 0x1F, for shift <= 4
shl_and_1f(bits, shift) == (low24(bits) * Pow2(shift)) % 32

\* the inner `while bit_count >= 5` loop: the characters it pushes
RECURSIVE drain(_, _)
drain(bits, bit_count) ==
    IF bit_count >= 5
    THEN <<alphabet_at(shr_and_1f(bits, bit_count - 5))>> \o drain(bits, bit_count - 5)
    ELSE <<>>

\* one iteration of `for &byte in data` from the loop state st: the byte is
\* shifted in, the whole groups are pushed
encode_byte(st, byte) ==
    LET b == shl8_or(st.bits, byte)
        n == st.bit_count + 8
    IN  [result |-> st.result \o drain(b, n), bits |-> b, bit_count |-> n % 5]

\* the loop state after bytes[lo..hi], in order, `result` holding what these
\* iterations pushed (the range split in halves; the test on `left` only
\* makes the first half evaluate first)
RECURSIVE encode_range(_, _, _, _)
encode_range(st, bytes, lo, hi) ==
    IF lo > hi THEN st
    ELSE IF lo = hi THEN encode_byte(st, bytes[lo])
    ELSE LET mid == (lo + hi) \div 2
             left == encode_range(st, bytes, lo, mid)
             right == encode_range([left EXCEPT !.result = <<>>], bytes, mid + 1, hi)
         IN  IF left.bit_count >= 0
             THEN [right EXCEPT !.result = left.result \o right.result]
             ELSE left

\* the loop, then `if bit_count > 0`: the remaining bits
encode_with(bits0, bytes) ==
    LET st == encode_range([result |-> <<>>, bits |-> bits0, bit_count |-> 0],
                           bytes, 1, Len(bytes))
    IN  IF st.bit_count > 0
        THEN st.result \o <<alphabet_at(shl_and_1f(st.bits, 5 - st.bit_count))>>
        ELSE st.result

base32hex_encode_u8(bytes) == encode_with(<<0>>, bytes)

\* base32hex_encode: let mut bits = 0u32; let mut bit_count = 0u32
base32hex_encode(bytes) == encode_with(<<0, 0, 0, 0>>, bytes)

----------------------------------------------------------------------------
(* The requests a caller may hand in *)

\* "SK9611000000002918599669", the IBAN of the schema example (models.rs)
IbanSK ==
    <<83, 75>> \o Digits(<<9, 6, 1, 1, 0, 0, 0, 0, 0, 0, 0, 0, 2, 9, 1, 8, 5,
                           9, 9, 6, 6, 9>>)

\* "CZ6508000000192000145399"
IbanCZ ==
    <<67, 90>> \o Digits(<<6, 5, 0, 8, 0, 0, 0, 0, 0, 0, 1, 9, 2, 0, 0, 0, 1,
                           4, 5, 3, 9, 9>>)

\* "SK96 1100 0000 0029 1859 9669": the same IBAN as it is printed
IbanSpaced ==
    <<83, 75, 57, 54, 32>> \o Digits(<<1, 1, 0, 0>>) \o <<32>>
    \o Digits(<<0, 0, 0, 0>>) \o <<32>> \o Digits(<<0, 0, 2, 9>>) \o <<32>>
    \o Digits(<<1, 8, 5, 9>>) \o <<32>> \o Digits(<<9, 6, 6, 9>>)

\* "SK961100000000": 14 characters
IbanShort == <<83, 75>> \o Digits(<<9, 6, 1, 1, 0, 0, 0, 0, 0, 0, 0, 0>>)

\* "SKX611000000002918599669": a letter where a check digit belongs
IbanNoCheck ==
    <<83, 75, 88, 54>> \o Digits(<<1, 1, 0, 0, 0, 0, 0, 0, 0, 0, 2, 9, 1, 8, 5,
                                   9, 9, 6, 6, 9>>)

\* "TATRSKBX"
SwiftOk == <<84, 65, 84, 82, 83, 75, 66, 88>>

\* "TATRSKB": 7 characters
SwiftShort == <<84, 65, 84, 82, 83, 75, 66>>

Date1 == [y |-> 2024, m |-> 3, d |-> 15]

Account(iban, swift) == [iban |-> iban, swift |-> swift]

\* amount 100.50 paid to one IBAN, every optional field absent
BaseIban ==
    [amount |-> 100500, iban |-> Some(IbanSK), bank_accounts |-> None,
     currency |-> <<69, 85, 82>>, swift |-> None, date |-> None,
     payment_due_date |-> None, invoice_id |-> None, beneficiary_name |-> None,
     beneficiary_address_1 |-> None, beneficiary_address_2 |-> None,
     variable_symbol |-> None, constant_symbol |-> None,
     specific_symbol |-> None, originators_reference_information |-> None,
     note |-> None, payment_options |-> None, standing_order |-> None,
     direct_debit |-> None]

\* the same paid to a list of two accounts, the first with a SWIFT
BaseAccounts ==
    [BaseIban EXCEPT !.iban = None,
                     !.bank_accounts =
                         Some(<<Account(IbanSK, Some(SwiftOk)),
                                Account(IbanCZ, None)>>)]

\* a text of n characters, the first of them c, the rest 'a'
Text(c, n) == IF n = 0 THEN <<>> ELSE <<c>> \o Repeat(97, n - 1)

\* the values tried for a text field of at most max characters: max ASCII
\* characters, max + 1 ASCII characters, and max characters the first of
\* which is U+00E1 (two bytes in UTF-8)
LengthValues(max) == {Some(Text(97, max)), Some(Text(97, max + 1)), Some(Text(225, max))}

LengthFields ==
    {<<"invoice_id", 10>>, <<"beneficiary_name", 70>>,
     <<"beneficiary_address_1", 70>>, <<"beneficiary_address_2", 70>>,
     <<"variable_symbol", 10>>, <<"constant_symbol", 4>>,
     <<"specific_symbol", 10>>, <<"originators_reference_information", 35>>,
     <<"note", 140>>}

LengthEdits ==
    UNION {{<<f[1], v>> : v \in LengthValues(f[2])} : f \in LengthFields}

\* every bounded text field present and short ("a1"); a note and a creditor
\* id that hold a tab character
TextEdits ==
    {<<f[1], Some(<<97, 49>>)>> : f \in LengthFields}
    \cup {<<"note", Some(<<97, 9, 98>>)>>, <<"note", Some(Text(97, 141))>>,
          <<"invoice_id", Some(Text(225, 10))>>}

AccountEdits ==
    ({"iban"} \X {None, Some(IbanSpaced), Some(IbanShort)})
    \cup ({"swift"} \X {Some(SwiftOk), Some(SwiftShort)})
    \cup ({"bank_accounts"} \X
              {None, Some(<<>>), Some(<<Account(IbanCZ, None)>>),
               Some(<<Account(IbanCZ, Some(SwiftShort)), Account(IbanNoCheck, None)>>),
               Some(<<Account(IbanSK, None), Account(IbanShort, Some(SwiftShort))>>)})

\* 0, -1.00, 0.001, 0.006
AmountEdits == {"amount"} \X {0, 0 - 1000, 1, 6}

OtherEdits ==
    ({"currency"} \X {<<69, 9, 82>>})
    \cup ({"date", "payment_due_date"} \X {Some(Date1)})
    \cup ({"payment_options"} \X
              {Some(<<>>), Some(<<"PaymentOrder">>),
               Some(<<"StandingOrder", "DirectDebit">>)})
    \cup ({"standing_order"} \X
              {Some([day |-> 15, month |-> <<1, 12>>, periodicity |-> "Monthly",
                     last_date |-> Date1])})
    \cup ({"direct_debit"} \X
              {Some([scheme |-> "Sepa", debit_type |-> "OneOff",
                     mandate_id |-> None, creditor_id |-> None]),
               Some([scheme |-> "Other", debit_type |-> "Recurrent",
                     mandate_id |-> Some(<<77, 49>>),
                     creditor_id |-> Some(<<67, 9, 50>>)])})

\* what the serializer reads
SerializerEdits == TextEdits \cup AccountEdits \cup AmountEdits \cup OtherEdits

\* what the validator reads
ValidatorEdits == LengthEdits \cup AccountEdits \cup AmountEdits

\* how many fields of a base request a request handed to an entry point of
\* the pipeline may differ in
MaxEdits == 2

\* how many fields of a base request a request handed to the validator alone
\* may differ in
MaxFaults == 2

Apply(p, e) == [p EXCEPT ![e[1]] = e[2]]

RECURSIVE Edited(_, _)
Edited(edits, k) ==
    IF k = 0 THEN {BaseIban, BaseAccounts}
    ELSE LET prev == Edited(edits, k - 1) IN
         prev \cup {Apply(p, e) : p \in prev, e \in edits}

Requests == Edited(SerializerEdits, MaxEdits)

ValidatorRequests == Edited(ValidatorEdits, MaxFaults)

\* The arguments validate_iban is tried on: c1 c2 c3 c4, then '0's, then the
\* character q, n characters in all (the first n of c1..c4 when n < 5), with
\* sp spaces put in after the second character.
IbanLengths == {0, 1, 3, 4, 5, 14, 15, 16, 24, 33, 34, 35, 36}

MaxSpaces == 2

IbanText(c1, c2, c3, c4, n, q, sp) ==
    LET plain == IF n < 5 THEN SubSeq(<<c1, c2, c3, c4>>, 1, n)
                 ELSE <<c1, c2, c3, c4>> \o Repeat(48, n - 5) \o <<q>>
        cut == IF n < 2 THEN n ELSE 2
    IN  SubSeq(plain, 1, cut) \o Repeat(Space, sp) \o SubSeq(plain, cut + 1, n)

IbanInputs ==
    {IbanText(c1, c2, c3, c4, n, q, sp) :
        c1 \in {83, 57, 201}, c2 \in {107, 45}, c3 \in {57, 65}, c4 \in {54, 122},
        n \in IbanLengths, q \in {48, 90, 45, 233}, sp \in 0..MaxSpaces}

\* The arguments base32hex_encode is tried on
ByteValues == {0, 1, 165, 255}

MaxBytes == 6

RECURSIVE SeqsUpTo(_, _)
SeqsUpTo(S, n) ==
    IF n = 0 THEN {<<>>}
    ELSE LET prev == SeqsUpTo(S, n - 1) IN
         prev \cup {Append(t, x) : t \in {u \in prev : Len(u) = n - 1}, x \in S}

ByteInputs == SeqsUpTo(ByteValues, MaxBytes)

----------------------------------------------------------------------------
(* qr.rs: images and their encoded bytes *)

\* QrOptions::default()
DefaultOptions == [with_frame |-> TRUE, qr_size |-> 300]

\* the eight bytes every PNG file starts with
PngSignature == <<137, 80, 78, 71, 13, 10, 26, 10>>

\* one thing drawn on an image: what, its top left corner, its side
Layer(kind, x, top, side) == [kind |-> kind, x |-> x, y |-> top, side |-> side]

\* an image: its dimensions and what is drawn on it, bottom first
Image(width, height, layers) ==
    [width |-> width, height |-> height, layers |-> layers]

\* Vec::new()
NoBytes == [magic |-> <<>>, image |-> Image(0, 0, <<>>)]

\* bytes that are no image in any format
Garbage == [magic |-> <<0>>, image |-> Image(0, 0, <<>>)]

\* Vec::is_empty
is_empty(bytes) == bytes.magic = <<>>

\* image.write_to(.., ImageFormat::Png): the PNG file of the image
write_png(image) == [magic |-> PngSignature, image |-> image]

\* image::load_from_memory: the image the bytes encode, None when they
\* encode none
load_from_memory(bytes) ==
    IF bytes.magic = PngSignature THEN Some(bytes.image) ELSE None

QrError == Res("QrError", "", "", 0, 0)

ImageError(msg) == Res("ImageError", msg, "", 0, 0)

\* the call did not return: an arithmetic overflow panicked
Panic == Res("Panic", "", "", 0, 0)

\* qr.rs lines 8-18: the QR symbol of the code, resized to size x size
qr_image(code, side) == Image(side, side, <<Layer("qr", 0, 0, side)>>)

\* generate_qr_image; QrCode::new and the PNG encoder are library code that
\* may fail: fault names the one that does
generate_qr_image(code, side, fault) ==
    IF fault = "QrCode::new" THEN [result |-> QrError, png |-> NoBytes]
    ELSE IF fault = "write_to" THEN [result |-> ImageError("write_to"), png |-> NoBytes]
    ELSE [result |-> Ok, png |-> write_png(qr_image(code, side))]

\* the significand of 0.85_f32 (bits 0x3F59999A): 0.85_f32 = 14260634 / 2^24
Significand085 == 14260634

\* an f32 keeps 24 significant bits
Two24 == 16777216

RECURSIVE bit_length(_)
bit_length(n) == IF n = 0 THEN 0 ELSE 1 + bit_length(n \div 2)

\* ((n as f32) * 0.85) as u32 for n < 2^15: the exact product n * 14260634 is
\* a + b / 2^24, computed in 16-bit parts; the f32 product keeps its 24
\* leading bits, rounded to nearest, ties to even; `as u32` truncates
scale_085(n) ==
    LET hi == Significand085 \div 65536
        lo == Significand085 % 65536
        d == n * hi
        low == (d % 256) * 65536 + n * lo
        a == d \div 256 + low \div Two24
        b == low % Two24
        unit == Pow2(bit_length(a))
        r == b % unit
        kept == b - r
        up == 2 * r > unit \/ (2 * r = unit /\ (kept \div unit) % 2 = 1)
        rounded == IF up THEN kept + unit ELSE kept
    IN  IF rounded = Two24 THEN a + 1 ELSE a

\* u32::min
min(a, b) == IF a <= b THEN a ELSE b

\* the PNG file of a frame of the given dimensions
frame_png(width, height) ==
    write_png(Image(width, height, <<Layer("frame", 0, 0, min(width, height))>>))

u32_max(a, b) == IF a >= b THEN a ELSE b

\* the target taken from the larger side of the frame
target_size_of_larger(width, height) == scale_085(u32_max(width, height))

\* qr.rs line 52
target_size(width, height) == scale_085(min(width, height))

\* (a - b) / 2 on u32; in a build without overflow checks a - b wraps
\* modulo 2^32 when a < b: (2^32 - (b - a)) / 2
half_difference(a, b) ==
    IF a >= b THEN (a - b) \div 2 ELSE 2147483647 - ((b - a + 1) \div 2 - 1)

\* imageops::resize(&qr_img, side, side, Nearest)
resize(image, side) == Image(side, side, <<Layer("qr", 0, 0, side)>>)

\* imageops::overlay(&mut bottom, &top, x, y): bottom keeps its dimensions
overlay(bottom, top, x, top_y) ==
    Image(bottom.width, bottom.height,
          Append(bottom.layers, Layer("qr", x, top_y, top.width)))

\* what one call of add_frame does: its Result, the bytes it returns, the
\* buffers it decoded and the locals of lines 49-64
Framed(res, png, decoded, width, height, target, x, top) ==
    [result |-> res, png |-> png, loaded |-> decoded, frame_width |-> width,
     frame_height |-> height, target_qr_size |-> target, x_offset |-> x,
     y_offset |-> top]

\* add_frame (qr.rs lines 33-82); overflow_checks: whether the build panics
\* on an arithmetic overflow
add_frame(qr, frame, overflow_checks) ==
    IF is_none(frame) THEN Framed(Ok, qr, <<>>, 0, 0, 0, 0, 0)
    ELSE LET qr_img == load_from_memory(qr) IN
    IF is_none(qr_img)
    THEN Framed(ImageError("Failed to load QR image"), NoBytes, <<"qr">>,
                0, 0, 0, 0, 0)
    ELSE LET frame_img == load_from_memory(frame[1]) IN
    IF is_none(frame_img)
    THEN Framed(ImageError("Failed to load frame image"), NoBytes,
                <<"qr", "frame">>, 0, 0, 0, 0, 0)
    ELSE LET width == frame_img[1].width
             height == frame_img[1].height
             target == target_size(width, height)
             qr_resized == resize(qr_img[1], target)
             x == half_difference(width, target)
             top == half_difference(height, target)
         IN  IF overflow_checks /\ (width < target \/ height < target)
             THEN Framed(Panic, NoBytes, <<"qr", "frame">>, width, height,
                         target, 0, 0)
             ELSE Framed(Ok, write_png(overlay(frame_img[1], qr_resized, x, top)),
                         <<"qr", "frame">>, width, height, target, x, top)

\* add_frame called whatever the options say
frame_always(o, qr, frame, overflow_checks) ==
    [called |-> TRUE, ret |-> add_frame(qr, frame, overflow_checks)]

\* lib.rs lines 32-36: whether add_frame is called, and what is returned
frame_if_requested(o, qr, frame, overflow_checks) ==
    IF o.with_frame
    THEN [called |-> TRUE, ret |-> add_frame(qr, frame, overflow_checks)]
    ELSE [called |-> FALSE, ret |-> Framed(Ok, qr, <<>>, 0, 0, 0, 0, 0)]

\* Rgba([255, 255, 255, 255]) and Rgba([0, 102, 204, 255])
White == <<255, 255, 255, 255>>

Blue == <<0, 102, 204, 255>>

\* qr.rs line 95
border_thickness == 10

\* v >= a - border_thickness on u32; when a < border_thickness and the build
\* does not check overflows the difference wraps to 2^32 - (border_thickness
\* - a), above every coordinate
at_least_diff(v, a) == IF a >= border_thickness THEN v >= a - border_thickness ELSE FALSE

\* the test of lines 98-101 at pixel (x, row): || evaluates left to right
\* and stops at the first true operand
in_border(x, row, side) ==
    IF x < border_thickness THEN TRUE
    ELSE IF at_least_diff(x, side) THEN TRUE
    ELSE IF row < border_thickness THEN TRUE
    ELSE at_least_diff(row, side)

\* the test with every operand evaluated, whatever the earlier ones gave
subtracts_always(x, row) == TRUE

\* whether the test at pixel (x, row) evaluates size - border_thickness: only
\* when its first operand x < border_thickness is false
subtracts(x, row) == ~(x < border_thickness)

\* ImageBuffer::new(size, size) filled with white
white_image(side) == [r \in 1..side |-> [c \in 1..side |-> White]]

\* the inner loop of lines 97-105 on one row
draw_row(pixels, row, side) ==
    [pixels EXCEPT ![row + 1] =
        [c \in 1..side |-> IF in_border(c - 1, row, side) THEN Blue
                           ELSE pixels[row + 1][c]]]

imageVars ==
    <<qr_data, png_data, loaded, frame_width, frame_height, target_qr_size,
      x_offset, y_offset, size, y, img>>

\* no image function has been called
NoImage ==
    /\ qr_data = NoBytes
    /\ png_data = NoBytes
    /\ loaded = <<>>
    /\ frame_width = 0
    /\ frame_height = 0
    /\ target_qr_size = 0
    /\ x_offset = 0
    /\ y_offset = 0
    /\ size = 0
    /\ y = 0
    /\ img = <<>>

----------------------------------------------------------------------------
(* lib.rs and generator.rs: one call of an entry point, stage by stage *)

\* generate_code_only validates first; generate_pay_by_square_code, which
\* lib.rs re-exports, serializes whatever it is given
Entries == {"generate_code_only", "generate_pay_by_square_code"}

Init ==
    /\ payment \in Requests
    /\ entry \in Entries
    /\ pc = "start"
    /\ result = Pending
    /\ data = <<>>
    /\ data_with_crc = <<>>
    /\ compressed = <<>>
    /\ final_data = <<>>
    /\ encoded = <<>>
    /\ iban_arg = <<>>
    /\ iban_ret = Pending
    /\ b32_arg = <<>>
    /\ b32_ret = <<>>
    /\ stages = <<>>
    /\ opts = DefaultOptions
    /\ frame_data = None
    /\ NoImage

others == <<iban_arg, iban_ret, b32_arg, b32_ret, imageVars>>

\* a stage whose error is dropped: the call goes on
carry_on(r, next) == next

\* the ? operator: where the call goes after a stage that returned r
question_mark(r, next) == IF r # Ok THEN "done" ELSE next

\* lib.rs line 42: validate_payment_request(payment)?
Validate ==
    /\ pc = "start"
    /\ entry \in {"generate_code_only", "generate_pay_by_square_qr"}
    /\ LET r == validate_payment_request(payment) IN
       /\ result' = IF r # Ok THEN r ELSE result
       /\ pc' = question_mark(r, "serialize")
    /\ stages' = Append(stages, "validate")
    /\ UNCHANGED <<payment, entry, data, data_with_crc, compressed, final_data,
                   encoded, opts, frame_data, others>>

\* generator.rs line 9: let data = build_data_structure(payment)?
BuildData ==
    /\ \/ pc = "serialize"
       \/ pc = "start" /\ entry = "generate_pay_by_square_code"
    /\ data' = build_data_structure(payment)
    /\ pc' = "checksum"
    /\ stages' = Append(stages, "encode")
    /\ UNCHANGED <<payment, entry, result, data_with_crc, compressed, final_data,
                   encoded, opts, frame_data, others>>

\* generator.rs lines 11-18
Checksum ==
    /\ pc = "checksum"
    /\ data_with_crc' = with_crc(data)
    /\ pc' = "compress"
    /\ UNCHANGED <<payment, entry, result, data, compressed, final_data,
                   encoded, stages, opts, frame_data, others>>

\* generator.rs line 21: let compressed = compress_lzma(&data_with_crc)?
Compress ==
    /\ pc = "compress"
    /\ \/ /\ compressed' = compress_lzma(data_with_crc)
          /\ pc' = "header"
          /\ result' = result
       \/ /\ result' = CompressionError
          /\ pc' = "done"
          /\ compressed' = compressed
    /\ UNCHANGED <<payment, entry, data, data_with_crc, final_data, encoded,
                   stages, opts, frame_data, others>>

\* generator.rs lines 23-29
Header ==
    /\ pc = "header"
    /\ final_data' = add_header(compressed)
    /\ pc' = "encode"
    /\ UNCHANGED <<payment, entry, result, data, data_with_crc, compressed,
                   encoded, stages, opts, frame_data, others>>

\* generator.rs lines 31-34: Ok(encoded); generate_pay_by_square_qr goes on
\* with the code (lib.rs line 26), the other entry points return it
Encode ==
    /\ pc = "encode"
    /\ encoded' = base32hex_encode(final_data)
    /\ IF entry = "generate_pay_by_square_qr"
       THEN /\ result' = result
            /\ pc' = "render"
       ELSE /\ result' = Ok
            /\ pc' = "done"
    /\ UNCHANGED <<payment, entry, data, data_with_crc, compressed, final_data,
                   stages, opts, frame_data, others>>

Next == Validate \/ BuildData \/ Checksum \/ Compress \/ Header \/ Encode

Spec == Init /\ [][Next]_vars

----------------------------------------------------------------------------
(* lib.rs: generate_pay_by_square_qr, stage by stage *)

\* the requests handed to generate_pay_by_square_qr: the two base requests
\* and the first with one fault
QrRequests ==
    {BaseIban, BaseAccounts}
    \cup {Apply(BaseIban, e) :
              e \in AmountEdits
                    \cup {<<"iban", Some(IbanShort)>>, <<"iban", Some(IbanSpaced)>>,
                          <<"swift", Some(SwiftShort)>>,
                          <<"note", Some(Text(97, 141))>>}}

QrSizes == {DefaultOptions.qr_size, 1}

QrOptionsTried == [with_frame : BOOLEAN, qr_size : QrSizes]

\* no frame, bytes that are no image, a square frame, a small flat frame
QrFrames == {None, Some(Garbage), Some(frame_png(500, 500)), Some(frame_png(3, 2))}

InitQr ==
    /\ payment \in QrRequests
    /\ \/ /\ entry = "generate_pay_by_square_qr"
          /\ opts \in QrOptionsTried
          /\ frame_data \in QrFrames
       \/ /\ entry = "generate_code_only"
          /\ opts = DefaultOptions
          /\ frame_data = None
    /\ pc = "start"
    /\ result = Pending
    /\ data = <<>>
    /\ data_with_crc = <<>>
    /\ compressed = <<>>
    /\ final_data = <<>>
    /\ encoded = <<>>
    /\ iban_arg = <<>>
    /\ iban_ret = Pending
    /\ b32_arg = <<>>
    /\ b32_ret = <<>>
    /\ stages = <<>>
    /\ NoImage

\* lib.rs line 29: let qr_data = generate_qr_image(&code, opts.qr_size)?
RenderQr ==
    /\ pc = "render"
    /\ \E fault \in {"none", "QrCode::new", "write_to"} :
           LET r == generate_qr_image(encoded, opts.qr_size, fault) IN
           /\ result' = IF r.result # Ok THEN r.result ELSE result
           /\ qr_data' = r.png
           /\ pc' = question_mark(r.result, "frame")
    /\ stages' = Append(stages, "render")
    /\ UNCHANGED <<payment, entry, data, data_with_crc, compressed, final_data,
                   encoded, iban_arg, iban_ret, b32_arg, b32_ret, opts,
                   frame_data, png_data, loaded, frame_width, frame_height,
                   target_qr_size, x_offset, y_offset, size, y, img>>

\* lib.rs lines 32-36
Frame ==
    /\ pc = "frame"
    /\ \E overflow_checks \in BOOLEAN :
           LET r == frame_if_requested(opts, qr_data, frame_data, overflow_checks) IN
           /\ stages' = IF r.called THEN Append(stages, "composite") ELSE stages
           /\ result' = r.ret.result
           /\ png_data' = r.ret.png
           /\ loaded' = r.ret.loaded
           /\ frame_width' = r.ret.frame_width
           /\ frame_height' = r.ret.frame_height
           /\ target_qr_size' = r.ret.target_qr_size
           /\ x_offset' = r.ret.x_offset
           /\ y_offset' = r.ret.y_offset
    /\ pc' = "done"
    /\ UNCHANGED <<payment, entry, data, data_with_crc, compressed, final_data,
                   encoded, iban_arg, iban_ret, b32_arg, b32_ret, opts,
                   frame_data, qr_data, size, y, img>>

NextQr ==
    \/ Validate \/ BuildData \/ Checksum \/ Compress \/ Header \/ Encode
    \/ RenderQr \/ Frame

SpecQr == InitQr /\ [][NextQr]_vars

----------------------------------------------------------------------------
(* validate_payment_request (re-exported by lib.rs) called on its own *)

InitValidate ==
    /\ payment \in ValidatorRequests
    /\ entry = "validate_payment_request"
    /\ pc = "start"
    /\ result = Pending
    /\ data = <<>>
    /\ data_with_crc = <<>>
    /\ compressed = <<>>
    /\ final_data = <<>>
    /\ encoded = <<>>
    /\ iban_arg = <<>>
    /\ iban_ret = Pending
    /\ b32_arg = <<>>
    /\ b32_ret = <<>>
    /\ stages = <<>>
    /\ opts = DefaultOptions
    /\ frame_data = None
    /\ NoImage

ValidateOnly ==
    /\ pc = "start"
    /\ entry = "validate_payment_request"
    /\ result' = validate_payment_request(payment)
    /\ pc' = "done"
    /\ UNCHANGED <<payment, entry, data, data_with_crc, compressed, final_data,
                   encoded, stages, opts, frame_data, others>>

NextValidate == ValidateOnly

SpecValidate == InitValidate /\ [][NextValidate]_vars

----------------------------------------------------------------------------
(* validate_iban applied to one argument *)

InitIban ==
    /\ payment = BaseIban
    /\ entry = "validate_iban"
    /\ pc = "start"
    /\ result = Pending
    /\ data = <<>>
    /\ data_with_crc = <<>>
    /\ compressed = <<>>
    /\ final_data = <<>>
    /\ encoded = <<>>
    /\ iban_arg \in IbanInputs
    /\ iban_ret = Pending
    /\ b32_arg = <<>>
    /\ b32_ret = <<>>
    /\ stages = <<>>
    /\ opts = DefaultOptions
    /\ frame_data = None
    /\ NoImage

CallValidateIban ==
    /\ pc = "start"
    /\ entry = "validate_iban"
    /\ iban_ret' = validate_iban(iban_arg)
    /\ pc' = "done"
    /\ UNCHANGED <<payment, entry, result, data, data_with_crc, compressed,
                   final_data, encoded, iban_arg, b32_arg, b32_ret, stages,
                   opts, frame_data, imageVars>>

NextIban == CallValidateIban

SpecIban == InitIban /\ [][NextIban]_vars

----------------------------------------------------------------------------
(* base32hex_encode applied to one argument *)

InitB32 ==
    /\ payment = BaseIban
    /\ entry = "base32hex_encode"
    /\ pc = "start"
    /\ result = Pending
    /\ data = <<>>
    /\ data_with_crc = <<>>
    /\ compressed = <<>>
    /\ final_data = <<>>
    /\ encoded = <<>>
    /\ iban_arg = <<>>
    /\ iban_ret = Pending
    /\ b32_arg \in ByteInputs
    /\ b32_ret = <<>>
    /\ stages = <<>>
    /\ opts = DefaultOptions
    /\ frame_data = None
    /\ NoImage

CallBase32 ==
    /\ pc = "start"
    /\ entry = "base32hex_encode"
    /\ b32_ret' = base32hex_encode(b32_arg)
    /\ pc' = "done"
    /\ UNCHANGED <<payment, entry, result, data, data_with_crc, compressed,
                   final_data, encoded, iban_arg, iban_ret, b32_arg, stages,
                   opts, frame_data, imageVars>>

NextB32 == CallBase32

SpecB32 == InitB32 /\ [][NextB32]_vars

----------------------------------------------------------------------------
(* add_frame (re-exported by lib.rs) called on its own *)

\* the largest side of the small frames tried, every side from 1 up to it
MaxSide == 12

\* the sides of the frames tried: the small ones and some common ones
FrameSides == (1..MaxSide) \cup {100, 499, 500, 501, 1080, 1920, 32767}

FrameInputs ==
    {None, Some(Garbage)}
    \cup {Some(frame_png(w, h)) : w \in FrameSides, h \in FrameSides}

InitFrame ==
    /\ payment = BaseIban
    /\ entry = "add_frame"
    /\ pc = "start"
    /\ result = Pending
    /\ data = <<>>
    /\ data_with_crc = <<>>
    /\ compressed = <<>>
    /\ final_data = <<>>
    /\ encoded = <<>>
    /\ iban_arg = <<>>
    /\ iban_ret = Pending
    /\ b32_arg = <<>>
    /\ b32_ret = <<>>
    /\ stages = <<>>
    /\ opts = DefaultOptions
    /\ frame_data \in FrameInputs
    /\ qr_data \in {write_png(qr_image(<<>>, DefaultOptions.qr_size)), Garbage}
    /\ png_data = NoBytes
    /\ loaded = <<>>
    /\ frame_width = 0
    /\ frame_height = 0
    /\ target_qr_size = 0
    /\ x_offset = 0
    /\ y_offset = 0
    /\ size = 0
    /\ y = 0
    /\ img = <<>>

CallAddFrame ==
    /\ pc = "start"
    /\ entry = "add_frame"
    /\ \E overflow_checks \in BOOLEAN :
           LET r == add_frame(qr_data, frame_data, overflow_checks) IN
           /\ result' = r.result
           /\ png_data' = r.png
           /\ loaded' = r.loaded
           /\ frame_width' = r.frame_width
           /\ frame_height' = r.frame_height
           /\ target_qr_size' = r.target_qr_size
           /\ x_offset' = r.x_offset
           /\ y_offset' = r.y_offset
    /\ pc' = "done"
    /\ UNCHANGED <<payment, entry, data, data_with_crc, compressed, final_data,
                   encoded, iban_arg, iban_ret, b32_arg, b32_ret, stages, opts,
                   frame_data, qr_data, size, y, img>>

NextFrame == CallAddFrame

SpecFrame == InitFrame /\ [][NextFrame]_vars

----------------------------------------------------------------------------
(* generate_default_frame (re-exported by lib.rs) called on its own *)

\* the largest size tried, every size from 1 up to it
MaxSize == 24

InitDefaultFrame ==
    /\ payment = BaseIban
    /\ entry = "generate_default_frame"
    /\ pc = "start"
    /\ result = Pending
    /\ data = <<>>
    /\ data_with_crc = <<>>
    /\ compressed = <<>>
    /\ final_data = <<>>
    /\ encoded = <<>>
    /\ iban_arg = <<>>
    /\ iban_ret = Pending
    /\ b32_arg = <<>>
    /\ b32_ret = <<>>
    /\ stages = <<>>
    /\ opts = DefaultOptions
    /\ frame_data = None
    /\ qr_data = NoBytes
    /\ png_data = NoBytes
    /\ loaded = <<>>
    /\ frame_width = 0
    /\ frame_height = 0
    /\ target_qr_size = 0
    /\ x_offset = 0
    /\ y_offset = 0
    /\ size \in 1..MaxSize
    /\ y = 0
    /\ img = <<>>

drawingUnchanged ==
    UNCHANGED <<payment, entry, data, data_with_crc, compressed, final_data,
                encoded, iban_arg, iban_ret, b32_arg, b32_ret, stages, opts,
                frame_data, qr_data, loaded, frame_width, frame_height,
                target_qr_size, x_offset, y_offset, size>>

\* qr.rs lines 87-92
FillWhite ==
    /\ pc = "start"
    /\ entry = "generate_default_frame"
    /\ img' = white_image(size)
    /\ pc' = "rows"
    /\ UNCHANGED <<result, png_data, y>>
    /\ drawingUnchanged

\* qr.rs lines 96-106, one turn of the outer loop; a subtraction that
\* underflows panics in a build with overflow checks and wraps in one without
DrawRow ==
    /\ pc = "rows"
    /\ y < size
    /\ \E overflow_checks \in BOOLEAN :
           IF /\ overflow_checks
              /\ size < border_thickness
              /\ \E x \in 0..(size - 1) : subtracts(x, y)
           THEN /\ result' = Panic
                /\ pc' = "done"
                /\ UNCHANGED <<img, y>>
           ELSE /\ img' = draw_row(img, y, size)
                /\ y' = y + 1
                /\ UNCHANGED <<result, pc>>
    /\ png_data' = png_data
    /\ drawingUnchanged

\* qr.rs lines 108-116
EncodeFrame ==
    /\ pc = "rows"
    /\ y = size
    /\ png_data' = write_png(Image(size, size, <<Layer("pixels", 0, 0, size)>>))
    /\ result' = Ok
    /\ pc' = "done"
    /\ UNCHANGED <<img, y>>
    /\ drawingUnchanged

NextDefaultFrame == FillWhite \/ DrawRow \/ EncodeFrame

SpecDefaultFrame == InitDefaultFrame /\ [][NextDefaultFrame]_vars

----------------------------------------------------------------------------
(* Reading a serialized string back *)

TabPositions(s) == {i \in 1..Len(s) : s[i] = Tab}

\* the position of the k-th tab of s
TabAt(s, k) ==
    CHOOSE i \in TabPositions(s) : Cardinality({j \in TabPositions(s) : j < i}) = k - 1

\* how many fields s splits into on the tab character
FieldCount(s) == Cardinality(TabPositions(s)) + 1

\* the k-th field (from 1) of s split on the tab character
FieldAt(s, k) ==
    LET n == Cardinality(TabPositions(s))
        from == IF k = 1 THEN 1 ELSE TabAt(s, k - 1) + 1
        to == IF k > n THEN Len(s) ELSE TabAt(s, k) - 1
    IN  SubSeq(s, from, to)

\* the call has serialized its request
Serialized == pc \in {"checksum", "compress", "header", "encode"} \/ (pc = "done" /\ result.kind \in {"Ok", "CompressionError"})

\* generate_code_only has validated its request and serialized it
AcceptedAndSerialized == Serialized /\ entry = "generate_code_only"

----------------------------------------------------------------------------
(* C1 *)

\* one rule: whether the request violates it, and the error it then reports
Rule(violated, err) == [violated |-> violated, err |-> err]

TooLong(opt, max) == is_some(opt) /\ str_len(opt[1]) > max

LengthRule(field, opt, max) ==
    Rule(TooLong(opt, max),
         FieldTooLong(field, max, IF is_some(opt) THEN str_len(opt[1]) ELSE 0))

IbanRuleOf(present, s) == Rule(present /\ validate_iban(s) # Ok, validate_iban(s))

SwiftRuleOf(present, s) == Rule(present /\ validate_swift(s) # Ok, validate_swift(s))

\* the rules of the validator in the order the claim gives them
RuleList(p) ==
    << Rule(p.amount <= 0, InvalidAmount),
       Rule(is_none(p.iban) /\ is_none(p.bank_accounts), MissingBankAccount),
       IbanRuleOf(is_some(p.iban), unwrap_or_default(p.iban)) >>
    \o (IF is_none(p.bank_accounts) THEN <<>>
        ELSE Flatten([i \in 1..Len(p.bank_accounts[1]) |->
                 LET a == p.bank_accounts[1][i] IN
                 << IbanRuleOf(TRUE, a.iban),
                    SwiftRuleOf(is_some(a.swift), unwrap_or_default(a.swift)) >>]))
    \o << SwiftRuleOf(is_some(p.swift), unwrap_or_default(p.swift)),
          LengthRule("invoice_id", p.invoice_id, 10),
          LengthRule("beneficiary_name", p.beneficiary_name, 70),
          LengthRule("beneficiary_address_1", p.beneficiary_address_1, 70),
          LengthRule("beneficiary_address_2", p.beneficiary_address_2, 70),
          LengthRule("variable_symbol", p.variable_symbol, 10),
          LengthRule("constant_symbol", p.constant_symbol, 4),
          LengthRule("specific_symbol", p.specific_symbol, 10),
          LengthRule("originators_reference_information",
                     p.originators_reference_information, 35),
          LengthRule("note", p.note, 140) >>

ViolatedRules(p) == {i \in 1..Len(RuleList(p)) : RuleList(p)[i].violated}

Validated == pc = "done" /\ entry = "validate_payment_request"

\* C1: validate_payment_request returns the error of the first violated rule
\* in the fixed order amount, missing account, top-level IBAN, each account
\* (its IBAN, then its SWIFT) in list order, top-level SWIFT, the length
\* limits field by field; it returns Ok only when no rule is violated.
C1_FirstFailureWins ==
    Validated =>
        LET rules == RuleList(payment)
            bad == ViolatedRules(payment)
        IN  IF bad = {} THEN result = Ok
            ELSE LET first == CHOOSE i \in bad : \A j \in bad : i <= j IN
                 /\ result # Ok
                 /\ result = rules[first].err

\* a request that violates two rules of different kinds was validated
C1_Witness ==
    /\ Validated
    /\ \E i, j \in ViolatedRules(payment) :
           /\ i < j
           /\ RuleList(payment)[i].err # RuleList(payment)[j].err
           /\ result = RuleList(payment)[i].err

----------------------------------------------------------------------------
(* C2 *)

Returned == pc = "done" /\ entry = "generate_code_only" /\ result = Ok

----------------------------------------------------------------------------
(* C3 *)

\* C3: for every request the validator accepts, the serialized string splits
\* on the tab character into exactly 17 fields.
C3_SeventeenFields ==
    AcceptedAndSerialized => FieldCount(data) = 17

----------------------------------------------------------------------------
(* C4 *)

\* C4: a returned code is the base32hex text of four zero bytes followed by
\* the compressor's output; the compressor's input is the CRC-32 of the
\* serialized field string, low byte first, followed by the string's UTF-8
\* bytes; the code begins with six '0' characters.
C4_StageOrder ==
    (pc = "done" /\ result = Ok) =>
        LET crc == crc32(as_bytes(data)) IN
        /\ data = build_data_structure(payment)
        /\ Len(data_with_crc) = 4 + Len(as_bytes(data))
        /\ data_with_crc[1] + 256 * data_with_crc[2] = crc[2]
        /\ data_with_crc[3] + 256 * data_with_crc[4] = crc[1]
        /\ SubSeq(data_with_crc, 5, Len(data_with_crc)) = as_bytes(data)
        /\ compressed = compress_lzma(data_with_crc)
        /\ Len(final_data) = 4 + Len(compressed)
        /\ SubSeq(final_data, 1, 4) = <<0, 0, 0, 0>>
        /\ SubSeq(final_data, 5, Len(final_data)) = compressed
        /\ encoded = base32hex_encode(final_data)
        /\ Len(encoded) >= 6
        /\ SubSeq(encoded, 1, 6) = <<48, 48, 48, 48, 48, 48>>

\* generate_code_only returned a code for a request with a note
C4_Witness ==
    Returned /\ is_some(payment.note) /\ Len(encoded) > 6

----------------------------------------------------------------------------
(* C5 *)

\* "0123456789ABCDEFGHIJKLMNOPQRSTUV"
Base32HexAlphabet ==
    <<48, 49, 50, 51, 52, 53, 54, 55, 56, 57, 65, 66, 67, 68, 69, 70, 71, 72,
      73, 74, 75, 76, 77, 78, 79, 80, 81, 82, 83, 84, 85, 86>>

\* bit k (from 0, the most significant bit of the first byte) of the bit
\* string of bytes, 0 past its end
BitAt(bytes, k) ==
    IF k >= 8 * Len(bytes) THEN 0
    ELSE (bytes[(k \div 8) + 1] \div Pow2(7 - (k % 8))) % 2

\* the unpadded base32hex text of RFC 4648
Rfc4648Base32Hex(bytes) ==
    [i \in 1..((8 * Len(bytes) + 4) \div 5) |->
        Base32HexAlphabet[
            1 + 16 * BitAt(bytes, 5 * (i - 1)) + 8 * BitAt(bytes, 5 * (i - 1) + 1)
              + 4 * BitAt(bytes, 5 * (i - 1) + 2) + 2 * BitAt(bytes, 5 * (i - 1) + 3)
              + BitAt(bytes, 5 * (i - 1) + 4)]]

Encoded == pc = "done" /\ entry = "base32hex_encode"

\* C5: base32hex_encode returns the unpadded RFC 4648 base32hex text: of n
\* bytes, ceil(8n/5) characters of the alphabet, character i naming bits
\* 5i..5i+4 of the input, the last group completed with zero bits, no '='.
C5_Base32Hex ==
    Encoded =>
        /\ b32_ret = Rfc4648Base32Hex(b32_arg)
        /\ 5 * Len(b32_ret) >= 8 * Len(b32_arg)
        /\ 5 * Len(b32_ret) < 8 * Len(b32_arg) + 5
        /\ \A i \in 1..Len(b32_ret) :
               /\ b32_ret[i] # 61
               /\ \E k \in 1..32 : b32_ret[i] = Base32HexAlphabet[k]

\* more than four bytes were encoded, the first with its high bits set (they
\* have left the 32-bit accumulator), ending in a partial group
C5_Witness ==
    /\ Encoded
    /\ Len(b32_arg) > 4
    /\ b32_arg[1] = 255
    /\ (8 * Len(b32_arg)) % 5 # 0
    /\ b32_ret # <<>>

----------------------------------------------------------------------------
(* C6 *)

AsciiLetters == (65..90) \cup (97..122)

AsciiDigits == 48..57

\* the rule of C6 on the characters of s
IbanRule(s) ==
    LET c == SelectSeq(s, LAMBDA x : x # 32) IN
    /\ Len(c) >= 15
    /\ Len(c) <= 34
    /\ c[1] \in AsciiLetters
    /\ c[2] \in AsciiLetters
    /\ c[3] \in AsciiDigits
    /\ c[4] \in AsciiDigits
    /\ \A i \in 1..Len(c) : c[i] \in AsciiLetters \cup AsciiDigits

IbanChecked == pc = "done" /\ entry = "validate_iban"

\* C6: validate_iban accepts a string exactly when, its spaces removed, it
\* has 15 to 34 characters, starts with two ASCII letters and two ASCII
\* digits and is ASCII alphanumeric throughout; it rejects every other
\* string with InvalidIban.
C6_IbanRule ==
    IbanChecked =>
        /\ (iban_ret = Ok) <=> IbanRule(iban_arg)
        /\ iban_ret # Ok => iban_ret.kind = "InvalidIban"

\* a string of 34 characters and some spaces was accepted
C6_Witness ==
    /\ IbanChecked
    /\ iban_ret = Ok
    /\ Len(iban_arg) > 34
    /\ Len(replace_space(iban_arg)) = 34

----------------------------------------------------------------------------
(* C7 *)

\* every rule but the length limit of field f is satisfied
OnlyLengthOf(f) ==
    /\ is_some(payment[f])
    /\ validate_payment_request([payment EXCEPT ![f] = None]) = Ok

\* C7: a bounded text field is rejected with FieldTooLong(field, max, actual)
\* exactly when its length in characters exceeds its maximum, whatever its
\* characters, and actual is that number of characters.
C7_LengthInCharacters ==
    Validated =>
        \A f \in LengthFields :
            OnlyLengthOf(f[1]) =>
                result = IF chars_count(payment[f[1]][1]) > f[2]
                         THEN FieldTooLong(f[1], f[2], chars_count(payment[f[1]][1]))
                         ELSE Ok

----------------------------------------------------------------------------
(* C8 *)

\* digits '.' digit digit
DecimalShape(t) ==
    /\ Len(t) >= 4
    /\ t[Len(t) - 2] = 46
    /\ \A i \in 1..Len(t) : i # Len(t) - 2 => t[i] \in AsciiDigits

\* C8: every request the validator accepts has an amount of at least 0.01,
\* so its amount field, two fractional digits, never reads "0.00".
C8_MinimumAmount ==
    AcceptedAndSerialized =>
        /\ payment.amount >= 10
        /\ DecimalShape(FieldAt(data, 2))
        /\ FieldAt(data, 2) # <<48, 46, 48, 48>>

----------------------------------------------------------------------------
(* C9 *)

\* IBAN|SWIFT when the SWIFT is present, IBAN otherwise
EntryOf(iban, swift) ==
    IF swift = <<>> THEN iban ELSE iban \o <<124>> \o swift[1]

\* the entries of accounts[i..], each after a comma
RECURSIVE CommaEntries(_, _)
CommaEntries(accounts, i) ==
    IF i > Len(accounts) THEN <<>>
    ELSE <<44>> \o EntryOf(accounts[i].iban, accounts[i].swift)
         \o CommaEntries(accounts, i + 1)

\* the account field C9 describes
AccountField(p) ==
    IF p.bank_accounts # <<>>
    THEN IF p.bank_accounts[1] = <<>> THEN <<>>
         ELSE Tail(CommaEntries(p.bank_accounts[1], 1))
    ELSE IF p.iban # <<>> THEN EntryOf(p.iban[1], p.swift)
    ELSE <<>>

\* C9: field 10 of the serialized string is the comma-join of the accounts'
\* entries when bank_accounts is present, and the top-level entry otherwise.
C9_AccountField ==
    Serialized => FieldAt(data, 10) = AccountField(payment)

----------------------------------------------------------------------------
(* C10 *)

OptionNumber(opt) ==
    IF opt = "PaymentOrder" THEN 49 ELSE IF opt = "StandingOrder" THEN 50 ELSE 51

NoOption(p) == p.payment_options = <<>> \/ p.payment_options[1] = <<>>

\* C10: field 1 of the serialized string is the comma-join of the codes of
\* the declared options, and "1" whenever the request declares none, be
\* payment_options absent or an empty list; it is never empty.
C10_OptionsField ==
    Serialized =>
        LET f == FieldAt(data, 1) IN
        /\ f # <<>>
        /\ IF NoOption(payment) THEN f = <<49>>
           ELSE LET declared == payment.payment_options[1] IN
                /\ Len(f) = 2 * Len(declared) - 1
                /\ \A i \in 1..Len(declared) : f[2 * i - 1] = OptionNumber(declared[i])
                /\ \A i \in 1..(Len(declared) - 1) : f[2 * i] = 44

----------------------------------------------------------------------------
(* C15 *)

\* the text t holds, somewhere, two ASCII letters followed by two ASCII digits
NamesAnIban(t) ==
    \E i \in 1..(Len(t) - 3) :
        /\ t[i] \in AsciiLetters
        /\ t[i + 1] \in AsciiLetters
        /\ t[i + 2] \in AsciiDigits
        /\ t[i + 3] \in AsciiDigits

\* C15: for every request the validator accepts, field 10 of the serialized
\* string is non-empty and names at least one IBAN, also when bank_accounts
\* is present as an empty list.
C15_AccountFieldNonEmpty ==
    AcceptedAndSerialized =>
        /\ FieldAt(data, 10) # <<>>
        /\ NamesAnIban(FieldAt(data, 10))

----------------------------------------------------------------------------
(* C16 *)

\* the IBAN rule on the text as written, no space removed
IbanForm(t) == IbanRule(t) /\ \A i \in 1..Len(t) : t[i] # Space

\* 8 or 11 ASCII alphanumeric characters
SwiftForm(t) ==
    /\ Len(t) \in {8, 11}
    /\ \A i \in 1..Len(t) : t[i] \in AsciiLetters \cup AsciiDigits

\* the accounts the serializer writes into field 10
WrittenAccounts(p) ==
    IF p.bank_accounts # <<>>
    THEN {p.bank_accounts[1][i] : i \in 1..Len(p.bank_accounts[1])}
    ELSE IF p.iban # <<>> THEN {Account(p.iban[1], p.swift)}
    ELSE {}

\* C16: for every accepted request each IBAN written into field 10 satisfies
\* the IBAN rule as written and each SWIFT written there is 8 or 11
\* alphanumeric characters, so field 10 holds no space character.
C16_EncodedFormIsValidatedForm ==
    AcceptedAndSerialized =>
        /\ \A a \in WrittenAccounts(payment) :
               /\ IbanForm(a.iban)
               /\ a.swift # <<>> => SwiftForm(a.swift[1])
        /\ \A i \in 1..Len(FieldAt(data, 10)) : FieldAt(data, 10)[i] # Space

----------------------------------------------------------------------------
(* C11 *)

\* add_frame has returned from a call with a QR image and a frame image
FrameComposited ==
    /\ pc = "done"
    /\ entry = "add_frame"
    /\ is_some(frame_data)
    /\ is_some(load_from_memory(frame_data[1]))
    /\ is_some(load_from_memory(qr_data))

\* C11: on a frame of w x h pixels add_frame resizes the QR to inner x inner,
\* inner = floor(0.85 * min(w, h)), and overlays it at ((w - inner) / 2,
\* (h - inner) / 2); no subtraction underflows, the QR square lies inside the
\* frame, opposite margins differ by at most one pixel and the result is
\* w x h; a 500 x 500 frame gives inner = 425 at (37, 37).
C11_FrameGeometry ==
    FrameComposited =>
        LET w == frame_data[1].image.width
            h == frame_data[1].image.height
            inner == (17 * min(w, h)) \div 20
            out == png_data.image
            qr == out.layers[Len(out.layers)]
        IN  /\ result = Ok
            /\ frame_width = w /\ frame_height = h
            /\ target_qr_size = inner
            /\ w >= target_qr_size /\ h >= target_qr_size
            /\ x_offset = (w - inner) \div 2
            /\ y_offset = (h - inner) \div 2
            /\ x_offset + inner <= w
            /\ y_offset + inner <= h
            /\ (w - inner - x_offset) - x_offset \in {0, 1}
            /\ (h - inner - y_offset) - y_offset \in {0, 1}
            /\ out.width = w /\ out.height = h
            /\ qr = Layer("qr", x_offset, y_offset, inner)
            /\ (w = 500 /\ h = 500) =>
                   (target_qr_size = 425 /\ x_offset = 37 /\ y_offset = 37)

\* a QR was put on a 500 x 500 frame, and one on a frame higher than wide
\* with an odd margin
C11_Witness ==
    /\ FrameComposited
    /\ result = Ok
    /\ \/ frame_width = 500 /\ frame_height = 500 /\ target_qr_size = 425
       \/ frame_width < frame_height /\ (frame_width - target_qr_size) % 2 = 1

----------------------------------------------------------------------------
(* C14 *)

\* within 10 pixels of an edge of a side x side image, in the integers
NearEdge(px, py, side) ==
    px < 10 \/ px >= side - 10 \/ py < 10 \/ py >= side - 10

DefaultFrameCalled == entry = "generate_default_frame"

\* C14: for every size >= 1, sizes up to the border thickness included,
\* generate_default_frame neither underflows nor panics and returns a
\* non-empty image whose blue pixels are exactly those within 10 pixels of
\* an edge, all others white.
C14_DefaultFrame ==
    DefaultFrameCalled =>
        /\ result # Panic
        /\ pc = "done" =>
               /\ result = Ok
               /\ ~is_empty(png_data)
               /\ png_data.image.width = size /\ png_data.image.height = size
               /\ Len(img) = size
               /\ \A py \in 0..(size - 1) :
                      /\ Len(img[py + 1]) = size
                      /\ \A px \in 0..(size - 1) :
                             img[py + 1][px + 1] =
                                 IF NearEdge(px, py, size) THEN Blue ELSE White

\* a frame smaller than its border was drawn
C14_Witness ==
    /\ DefaultFrameCalled
    /\ pc = "done"
    /\ result = Ok
    /\ size < 10
    /\ img[size][size] = Blue

----------------------------------------------------------------------------
(* C12 *)

\* generate_pay_by_square_qr has returned after rendering the QR image
QrRendered ==
    /\ entry = "generate_pay_by_square_qr"
    /\ pc = "done"
    /\ ~is_empty(qr_data)

\* C12: generate_pay_by_square_qr returns exactly the bytes of
\* generate_qr_image when with_frame is false (the frame bytes are then never
\* decoded) and when with_frame is true but no frame bytes are supplied; the
\* frame is decoded and composited only when with_frame is true and frame
\* bytes are present.
C12_PassThrough ==
    QrRendered =>
        /\ (~opts.with_frame \/ is_none(frame_data)) =>
               /\ result = Ok
               /\ png_data = qr_data
               /\ loaded = <<>>
        /\ (opts.with_frame /\ is_some(frame_data)) =>
               /\ loaded = <<"qr", "frame">>
               /\ png_data # qr_data
               /\ result = Ok =>
                      /\ png_data.image.width = frame_data[1].image.width
                      /\ png_data.image.height = frame_data[1].image.height

\* the QR was returned unchanged although frame bytes, no image at all, were
\* supplied
C12_Witness ==
    /\ QrRendered
    /\ ~opts.with_frame
    /\ frame_data = Some(Garbage)
    /\ result = Ok
    /\ png_data = qr_data

----------------------------------------------------------------------------
(* C13 *)

\* the stages of an entry point, in the order of its code
StageOrder ==
    IF entry = "generate_code_only" THEN <<"validate", "encode">>
    ELSE IF opts.with_frame THEN <<"validate", "encode", "render", "composite">>
    ELSE <<"validate", "encode", "render">>

\* the errors a stage can return
ErrorsOf(stage) ==
    IF stage = "validate"
    THEN {"InvalidAmount", "MissingBankAccount", "InvalidIban", "InvalidSwift",
          "FieldTooLong"}
    ELSE IF stage = "encode" THEN {"CompressionError"}
    ELSE IF stage = "render" THEN {"QrError", "ImageError"}
    ELSE {"ImageError"}

Failed == result.kind \notin {"Ok", "Pending"}

\* C13: the stages run in the order validate, encode, render, composite, each
\* at most once; the first stage that fails returns its error unchanged and
\* no later stage runs; a result is returned only when every stage ran and
\* succeeded; nothing is encoded or rendered for a request that validation
\* rejects.
C13_StagesInOrder ==
    /\ Len(stages) <= Len(StageOrder)
    /\ stages = SubSeq(StageOrder, 1, Len(stages))
    /\ Failed =>
           /\ pc = "done"
           /\ stages # <<>>
           /\ result.kind \in ErrorsOf(stages[Len(stages)])
           /\ stages = <<"validate">> => result = validate_payment_request(payment)
    /\ result = Ok =>
           /\ pc = "done"
           /\ stages = StageOrder
           /\ validate_payment_request(payment) = Ok
    /\ pc = "done" => result # Pending
    /\ (stages # <<>> /\ validate_payment_request(payment) # Ok) =>
           /\ stages = <<"validate">>
           /\ result = validate_payment_request(payment)
           /\ data = <<>>
           /\ encoded = <<>>
           /\ is_empty(qr_data)
           /\ is_empty(png_data)

\* the renderer failed after a code was encoded, and nothing was composited
C13_Witness ==
    /\ entry = "generate_pay_by_square_qr"
    /\ opts.with_frame
    /\ pc = "done"
    /\ result = QrError
    /\ stages = <<"validate", "encode", "render">>
    /\ encoded # <<>>

====
